---- MODULE Spec2Model ----
(***************************************************************************)
(* FLL-Foundation, Robot.py: the LightSensor class and the Robot driving   *)
(* primitives, as a state machine.                                         *)
(*                                                                         *)
(* One Robot method runs at a time (op), at a position (pc) of its code.   *)
(* A blocking method is one action per loop iteration: the loop test, and  *)
(* then either the loop body or the code after the loop.  Every hardware   *)
(* read (light(), gyroSensor.angle(), rightMotor.angle()) is drawn from a  *)
(* small set at the place the code reads it; the stopwatch is the variable *)
(* clock, which the action Tick advances.                                  *)
(*                                                                         *)
(* The code computes in floating point with the decimal literals .25, .5,  *)
(* .8, 0.02, 1.2, 1.25, 0.01 and 51.9.  The model computes the same        *)
(* expressions exactly, in integers scaled by a fixed denominator:         *)
(*   thresholds (black, line, white)   in 1/ThresholdScale                 *)
(*   steering                          in 1/SteerScale                     *)
(*   base speed                        in 1/SpeedScale                     *)
(*   wheel speed                       in 1/(FactorScale * SpeedScale)     *)
(*   rotation target                   in 1/RotationScale                  *)
(***************************************************************************)
EXTENDS Integers, Sequences, FiniteSets, TLC

VARIABLES
    file,       \* sensorpoints.py: the record calibrate wrote, if present
    sensors,    \* [left, right] -> the LightSensor's thresholds
    op,         \* the Robot / LightSensor method that is running, or "idle"
    pc,         \* the position in that method
    args,       \* its arguments
    loc,        \* its local variables
    clock,      \* how long the running loop has run (timer.time() if it has a
                \* StopWatch), in ms
    leftCmd,    \* the last command given to leftMotor
    rightCmd,   \* the last command given to rightMotor
    cmds,       \* the motor commands the running method has issued so far
    lastMS      \* the arguments of the last moveSteering call

vars == <<file, sensors, op, pc, args, loc, clock, leftCmd, rightCmd, cmds, lastMS>>

----------------------------------------------------------------------------
(* Bounds of the model *)

\* The stopwatch is read in steps of TickMs milliseconds, up to MaxTicks steps.
TickMs == 5000
MaxTicks == 4

----------------------------------------------------------------------------
(* Scales of the exact arithmetic *)

ThresholdScale == 20     \* .25, .8 and .5 are 5/20, 16/20 and 10/20
SteerScale == 40         \* 0.25 * (n/2) and 1.2 * (n/2), 1.25 * (n/2) are k/40
FactorScale == 2000      \* 0.02 * (k/40) is k/2000
SpeedScale == 1000       \* sin() is kept to three decimals
RotationScale == 10      \* 51.9 is 519/10

Abs(x) == IF x < 0 THEN -x ELSE x
Min(a, b) == IF a <= b THEN a ELSE b
\* math.copysign(m, x) for a number x that is not the float -0.0
CopySign(m, x) == IF x < 0 THEN -m ELSE m

----------------------------------------------------------------------------
(* Inputs *)

\* light() readings
LightVals == {30, 60, 70, 90, 140}
\* light() readings during calibrate
CalVals == {30, 90}
\* gyroSensor.angle() readings during turn, and during drive
GyroVals == {0, 10, 20, 30, 40, 50, 60, 70, 80, 90, 100}
DriveGyroVals == {0, 10, 90}
\* rightMotor.angle() readings
MotorAngles == {-52, -26, 0, 26, 52, 104}
\* arguments
Distances == {-1, 0, 1, 2}
DriveSpeeds == {-300, -90, 90, 300}
DriveTimes == {5, 20}
SteerInputs == {-150, -100, -50, 0, 50, 100, 150}
SpeedInputs == {-200, -100, 0, 100, 200}

----------------------------------------------------------------------------
(* LightSensor *)

\* A LightSensor's thresholds, those of __init__(port, low, high).
LightSensorWrongWhite(low, high) ==
    [low   |-> low,
     high  |-> high,
     black |-> ThresholdScale * low + (high - low) * 5,
     white |-> ThresholdScale * low + (high - low) * 4,
     line  |-> ThresholdScale * low + (high - low) * 10]

LightSensor(low, high) ==
    [low   |-> low,
     high  |-> high,
     black |-> ThresholdScale * low + (high - low) * 5,
     white |-> ThresholdScale * low + (high - low) * 16,
     line  |-> ThresholdScale * low + (high - low) * 10]

\* isWhite() and isBlack() on a sensor whose light() returns reading
IsWhiteAt(s, reading) == ThresholdScale * reading >= s.white
IsBlackAtWrong(s, reading) == ThresholdScale * reading >= s.black
IsBlackAt(s, reading) == ThresholdScale * reading <= s.black

----------------------------------------------------------------------------
(* Robot.__init__ *)

\* The records calibrate can leave in sensorpoints.py that a program starts with
Record(ll, lh, rl, rh) ==
    [present |-> TRUE, leftLow |-> ll, leftHigh |-> lh, rightLow |-> rl, rightHigh |-> rh]
NoFile ==
    [present |-> FALSE, leftLow |-> 0, leftHigh |-> 0, rightLow |-> 0, rightHigh |-> 0]
InitFiles ==
    {NoFile, Record(30, 70, 30, 40), Record(70, 90, 30, 90), Record(70, 40, 90, 30)}

NewSensors(f) ==
    IF ~f.present
    THEN [left |-> LightSensor(10, 105), right |-> LightSensor(20, 160)]
    ELSE [left  |-> LightSensor(f.leftLow, f.leftHigh),
          right |-> LightSensor(f.rightLow, f.rightHigh)]

\* Motor commands: run(speed), stop(brakeType), reset_angle(angle)
NoCmd == [k |-> "none", v |-> 0, brake |-> "-"]
Run(v) == [k |-> "run", v |-> v, brake |-> "-"]
ResetAngle(v) == [k |-> "reset", v |-> v, brake |-> "-"]
StopCmd(brake) == [k |-> "stop", v |-> 0, brake |-> brake]
NoMS == [called |-> FALSE, steering |-> 0, speed |-> 0]
None == [none |-> TRUE]

\* Every record over FileVals: calibrate leaves any of them, given the readings
FileVals == {30, 40, 70, 90}
AllFiles ==
    {NoFile} \cup {Record(ll, lh, rl, rh) : ll \in FileVals, lh \in FileVals,
                                           rl \in FileVals, rh \in FileVals}

\* The state after Robot(), with sensorpoints.py one of files
InitWith(files) ==
    /\ file \in files
    /\ sensors = NewSensors(file)
    /\ op = "idle"
    /\ pc = "idle"
    /\ args = None
    /\ loc = None
    /\ clock = 0
    /\ leftCmd = NoCmd
    /\ rightCmd = NoCmd
    /\ cmds = {}
    /\ lastMS = NoMS

Init == InitWith(InitFiles)
InitAnyFile == InitWith(AllFiles)
InitNoFile == InitWith({NoFile})

----------------------------------------------------------------------------
(* Robot.moveSteering and Robot.stop *)

\* <<leftMotorSpeed, rightMotorSpeed>> of moveSteering(steering, speed), for
\* steering in 1/SteerScale and speed in 1/SpeedScale
WheelSpeedsNoClamp(steering, speed) ==
    << speed * (steering * (FactorScale \div (50 * SteerScale)) + FactorScale),
       speed * (-steering * (FactorScale \div (50 * SteerScale)) + FactorScale) >>

WheelSpeedsSwapped(steering, speed) ==
    << speed * Min(FactorScale, -steering * (FactorScale \div (50 * SteerScale)) + FactorScale),
       speed * Min(FactorScale, steering * (FactorScale \div (50 * SteerScale)) + FactorScale) >>

WheelSpeeds(steering, speed) ==
    << speed * Min(FactorScale, steering * (FactorScale \div (50 * SteerScale)) + FactorScale),
       speed * Min(FactorScale, -steering * (FactorScale \div (50 * SteerScale)) + FactorScale) >>

\* self.moveSteering(steering, speed) inside an action
MoveSteering(steering, speed) ==
    /\ leftCmd' = Run(WheelSpeeds(steering, speed)[1])
    /\ rightCmd' = Run(WheelSpeeds(steering, speed)[2])
    /\ lastMS' = [called |-> TRUE, steering |-> steering, speed |-> speed]

\* self.stop(brakeType) inside an action
StopRightOnly(brakeType) ==
    /\ rightCmd' = StopCmd(brakeType)
    /\ UNCHANGED leftCmd
Stop(brakeType) ==
    /\ rightCmd' = StopCmd(brakeType)
    /\ leftCmd' = StopCmd(brakeType)

RunTags == {"L.run", "R.run"}
StopTags == {"L.stop", "R.stop"}

\* A caller's robot.moveSteering(steering, speed): it does not block
MoveSteeringCallWith(steerings, speeds) ==
    /\ op = "idle"
    /\ \E steering \in steerings, speed \in speeds :
          MoveSteering(steering * SteerScale, speed * SpeedScale)
    /\ cmds' = RunTags
    /\ UNCHANGED <<file, sensors, op, pc, args, loc, clock>>

MoveSteeringCall == MoveSteeringCallWith(SteerInputs, SpeedInputs)

\* A caller's robot.stop(brakeType)
StopCall ==
    /\ op = "idle"
    /\ \E brakeType \in {"BRAKE", "COAST", "HOLD"} : Stop(brakeType)
    /\ cmds' = StopTags
    /\ UNCHANGED <<file, sensors, op, pc, args, loc, clock, lastMS>>

\* The running method returns to its caller
Return ==
    /\ pc = "done"
    /\ op' = "idle"
    /\ pc' = "idle"
    /\ args' = None
    /\ loc' = None
    /\ clock' = 0
    /\ cmds' = {}
    /\ lastMS' = NoMS
    /\ UNCHANGED <<file, sensors, leftCmd, rightCmd>>

\* Time passes while a method with a StopWatch loops.  The loops only compare
\* timer.time() with their time limit, so the clock is advanced until it has
\* reached the limit, and no further.
TimedOps == {"drive", "turn", "lineFollow4Time", "calibrate"}
TimeLimit == IF op = "calibrate" THEN 5000 ELSE args.time * 1000
\* a method is in a loop that consults its StopWatch (Timed), or in one of the
\* LightSensor wait loops, which consult none (Waiting)
Timed == \/ op \in TimedOps /\ pc = "loop"
         \/ op = "drive2Line" /\ pc \in {"before", "after"}
Waiting == pc \in {"white", "black"}
Tick ==
    /\ \/ Timed /\ clock < TimeLimit
       \/ Waiting
    /\ clock < MaxTicks * TickMs
    /\ clock' = clock + TickMs
    /\ UNCHANGED <<file, sensors, op, pc, args, loc, leftCmd, rightCmd, cmds, lastMS>>

----------------------------------------------------------------------------
(* Robot.drive *)

KSteerings == {1}

\* round(1000 * sin(angle / rotation * 3.14)) for the angles and rotation
\* targets of the model; the code divides by rotation, so it is never
\* evaluated by the code with rotation = 0
SinMilli(angle, rotation) ==
    CASE rotation = 0 -> 0
      [] angle = 0 -> 0
      [] rotation = 519 /\ angle = 26 -> 1000
      [] rotation = 519 /\ angle = 52 -> -4
      [] rotation = 519 /\ angle = 104 -> 9
      [] rotation = 1038 /\ angle = 26 -> 708
      [] rotation = 1038 /\ angle = 52 -> 1000
      [] rotation = 1038 /\ angle = 104 -> -4

\* the test of drive's while loop
DriveCondNoTimeout(angle, rotation, t, time) ==
    Abs(angle) * RotationScale < Abs(rotation)

DriveCondLe(angle, rotation, t, time) ==
    (Abs(angle) * RotationScale <= Abs(rotation)) /\ (t < time * 1000)

DriveCond(angle, rotation, t, time) ==
    (Abs(angle) * RotationScale < Abs(rotation)) /\ (t < time * 1000)

\* rampSpeed, in 1/SpeedScale
RampSpeed(angle, rotation, speed) ==
    Min(SinMilli(Abs(angle), rotation), (Abs(speed) - 100) * SpeedScale)

\* lines 137-139: a negative distance is made positive and the speed negated
TravelDistance(distance) == IF distance < 0 THEN Abs(distance) ELSE distance
TravelSpeedKept(distance, speed) == speed
TravelSpeed(distance, speed) == IF distance < 0 THEN -speed ELSE speed

\* The locals of drive(distance, speed) at line 144.  reached tells, once the
\* loop test has failed, whether the rightMotor.angle() it read had reached
\* the rotation target; gyro and sine are currentDegrees and the value of
\* sin() in the last pass of the loop.
DriveLocals(distance, speed, startDegrees) ==
    [startDegrees |-> startDegrees,
     distance |-> TravelDistance(distance),
     speed |-> TravelSpeed(distance, speed),
     rotation |-> TravelDistance(distance) * 519,
     reached |-> FALSE,
     gyro |-> startDegrees,
     sine |-> 0]

\* lines 147-157 for the drive whose locals are in loc and whose time and
\* kSteering are in args: one test of the loop, then its body or the exit
DrivePass(loopPc, exitPc) ==
    \E angle \in MotorAngles :
        IF DriveCond(angle, loc.rotation, clock, args.time)
        THEN /\ \E currentDegrees \in DriveGyroVals, angle2 \in MotorAngles :
                  /\ MoveSteering(
                        (currentDegrees - loc.startDegrees) * args.kSteering
                            * CopySign(1, loc.speed) * SteerScale,
                        RampSpeed(angle2, loc.rotation, loc.speed) * loc.speed
                            + CopySign(100, loc.speed) * SpeedScale)
                  /\ loc' = [loc EXCEPT !.gyro = currentDegrees,
                                        !.sine = SinMilli(Abs(angle2), loc.rotation)]
             /\ cmds' = cmds \cup RunTags
             /\ pc' = loopPc
        ELSE /\ Stop("HOLD")
             /\ cmds' = cmds \cup StopTags
             /\ pc' = exitPc
             /\ loc' = [loc EXCEPT !.reached = ~(Abs(angle) * RotationScale < Abs(loc.rotation))]
             /\ UNCHANGED lastMS

\* lines 134-144: up to the start of the timer
DriveStartWith(distances, speeds, times) ==
    /\ op = "idle"
    /\ \E distance \in distances, speed \in speeds, time \in times,
          kSteering \in KSteerings, startDegrees \in DriveGyroVals :
          /\ args' = [distance |-> distance, speed |-> speed, time |-> time,
                      kSteering |-> kSteering]
          /\ loc' = DriveLocals(distance, speed, startDegrees)
    /\ rightCmd' = ResetAngle(0)
    /\ cmds' = {"R.reset"}
    /\ clock' = 0
    /\ op' = "drive"
    /\ pc' = "loop"
    /\ lastMS' = NoMS
    /\ UNCHANGED <<file, sensors, leftCmd>>

DriveStart == DriveStartWith(Distances, DriveSpeeds, DriveTimes)

\* lines 147-157: one test of the loop, then its body or the exit
DriveLoop ==
    /\ op = "drive"
    /\ pc = "loop"
    /\ DrivePass("loop", "done")
    /\ UNCHANGED <<file, sensors, op, args, clock>>

NextDrive == DriveStart \/ DriveLoop \/ Tick \/ Return
SpecDrive == InitNoFile /\ [][NextDrive]_vars

NextSteer == MoveSteeringCall \/ StopCall
SpecSteer == InitNoFile /\ [][NextSteer]_vars

----------------------------------------------------------------------------
(* LightSensor.isWhite, isBlack, waitForWhite, waitForBlack, waitForLine *)

Sides == {"left", "right"}

\* sensor.isWhite(): one light() read and its classification
IsWhiteCall ==
    /\ op = "idle"
    /\ \E side \in Sides, reading \in LightVals :
          loc' = [side |-> side, reading |-> reading,
                  result |-> IsWhiteAt(sensors[side], reading)]
    /\ op' = "isWhite"
    /\ pc' = "done"
    /\ UNCHANGED <<file, sensors, args, clock, leftCmd, rightCmd, cmds, lastMS>>

\* sensor.isBlack()
IsBlackCall ==
    /\ op = "idle"
    /\ \E side \in Sides, reading \in LightVals :
          loc' = [side |-> side, reading |-> reading,
                  result |-> IsBlackAt(sensors[side], reading)]
    /\ op' = "isBlack"
    /\ pc' = "done"
    /\ UNCHANGED <<file, sensors, args, clock, leftCmd, rightCmd, cmds, lastMS>>

WaitOps == {"waitForWhite", "waitForBlack", "waitForLine"}

\* where a wait method starts, and where it goes when waitForWhite returns
WaitEntry(o) == IF o = "waitForBlack" THEN "black" ELSE "white"
AfterWhiteNoBlack(o) == "done"
AfterWhite(o) == IF o = "waitForLine" THEN "black" ELSE "done"

\* lines 47 and 53: the test of a wait loop is over when the sensor classifies
\* the reading as asked; the time t the loop has run is not part of it
WaitOverTimeout(classified, t) == classified \/ t >= 5000
WaitOver(classified, t) == classified

\* The readings of the sensor so far: whiteSeen, a reading >= white;
\* blackSeen, a reading <= black;
\* blackAfterWhite, a reading <= black at a later read than such a reading;
\* blackFirst, a reading <= black before any reading >= white.
Seen(l, s, reading) ==
    [l EXCEPT !.whiteSeen = l.whiteSeen \/ ThresholdScale * reading >= s.white,
              !.blackSeen = l.blackSeen \/ ThresholdScale * reading <= s.black,
              !.blackAfterWhite = l.blackAfterWhite
                                    \/ (l.whiteSeen /\ ThresholdScale * reading <= s.black),
              !.blackFirst = l.blackFirst
                               \/ (/\ ~l.whiteSeen
                                   /\ ThresholdScale * reading <= s.black
                                   /\ ~(ThresholdScale * reading >= s.white))]

WaitStart ==
    /\ op = "idle"
    /\ \E o \in WaitOps, side \in Sides :
          /\ op' = o
          /\ pc' = WaitEntry(o)
          /\ loc' = [side |-> side, whiteSeen |-> FALSE, blackSeen |-> FALSE,
                     blackAfterWhite |-> FALSE, blackFirst |-> FALSE]
    /\ cmds' = {}
    /\ clock' = 0
    /\ UNCHANGED <<file, sensors, args, leftCmd, rightCmd, lastMS>>

\* lines 46-49 and 52-54 for the sensor of one side: one test of the loop of
\* waitForWhite, of waitForBlack
WaitForWhitePass(side, nextPc) ==
    \E reading \in LightVals :
        /\ pc' = IF WaitOver(IsWhiteAt(sensors[side], reading), clock)
                 THEN nextPc ELSE "white"
        /\ loc' = Seen(loc, sensors[side], reading)
WaitForBlackPass(side, nextPc) ==
    \E reading \in LightVals :
        /\ pc' = IF WaitOver(IsBlackAt(sensors[side], reading), clock)
                 THEN nextPc ELSE "black"
        /\ loc' = Seen(loc, sensors[side], reading)

\* lines 46-49: one test of waitForWhite's loop
WaitForWhiteLoop ==
    /\ op \in WaitOps
    /\ pc = "white"
    /\ WaitForWhitePass(loc.side, AfterWhite(op))
    /\ UNCHANGED <<file, sensors, op, args, clock, leftCmd, rightCmd, cmds, lastMS>>

\* lines 52-54: one test of waitForBlack's loop
WaitForBlackLoop ==
    /\ op \in WaitOps
    /\ pc = "black"
    /\ WaitForBlackPass(loc.side, "done")
    /\ UNCHANGED <<file, sensors, op, args, clock, leftCmd, rightCmd, cmds, lastMS>>

NextSensor ==
    \/ IsWhiteCall \/ IsBlackCall \/ WaitStart \/ WaitForWhiteLoop \/ WaitForBlackLoop
    \/ Tick \/ Return
SpecSensor == InitAnyFile /\ [][NextSensor]_vars

----------------------------------------------------------------------------
(* Robot.calibrate *)

SetMin(S) == CHOOSE x \in S : \A y \in S : x <= y
SetMax(S) == CHOOSE x \in S : \A y \in S : x >= y

\* lines 103-110: one pass of the loop body.  r is the sequence of the eight
\* light() values the sensors give if read: r[1], r[3] (right) and r[5], r[7]
\* (left) are the reads in the four tests, and r[2], r[4], r[6], r[8] are the
\* reads in the four assignments, made only where the test holds.
\* rightSeen and leftSeen are the readings each sensor has produced.
CalBody(l, r) ==
    LET rh == r[1] > l.rightHigh
        rl == r[3] < l.rightLow
        lh == r[5] > l.leftHigh
        ll == r[7] < l.leftLow
    IN  [rightHigh |-> IF rh THEN r[2] ELSE l.rightHigh,
         rightLow  |-> IF rl THEN r[4] ELSE l.rightLow,
         leftHigh  |-> IF lh THEN r[6] ELSE l.leftHigh,
         leftLow   |-> IF ll THEN r[8] ELSE l.leftLow,
         rightSeen |-> l.rightSeen \cup {r[1], r[3]}
                          \cup (IF rh THEN {r[2]} ELSE {}) \cup (IF rl THEN {r[4]} ELSE {}),
         leftSeen  |-> l.leftSeen \cup {r[5], r[7]}
                          \cup (IF lh THEN {r[6]} ELSE {}) \cup (IF ll THEN {r[8]} ELSE {})]

\* lines 93-100: the seeds, the timer and moveSteering(0, 125)
CalStart ==
    /\ op = "idle"
    /\ loc' = [rightHigh |-> 40, rightLow |-> 70, leftHigh |-> 40, leftLow |-> 70,
               rightSeen |-> {}, leftSeen |-> {}]
    /\ MoveSteering(0, 125 * SpeedScale)
    /\ cmds' = RunTags
    /\ clock' = 0
    /\ op' = "calibrate"
    /\ pc' = "loop"
    /\ args' = None
    /\ UNCHANGED <<file, sensors>>

\* lines 112-122: calibrate writes sensorpoints.py (f) and makes no new
\* LightSensor, so the sensors of the running Robot are the ones it had (s)
SensorsReloaded(s, f) == NewSensors(f)
SensorsAfterCalibrate(s, f) == s

\* lines 101-122: one test of the loop, then its body, or the stop and the
\* write of sensorpoints.py; readings are the sequences of eight light()
\* values a pass can get
CalLoopWith(readings) ==
    /\ op = "calibrate"
    /\ pc = "loop"
    /\ IF clock < 5000
       THEN /\ \E r \in readings : loc' = CalBody(loc, r)
            /\ UNCHANGED <<file, sensors, pc, leftCmd, rightCmd, cmds>>
       ELSE /\ Stop("HOLD")
            /\ cmds' = cmds \cup StopTags
            /\ file' = Record(loc.leftLow, loc.leftHigh, loc.rightLow, loc.rightHigh)
            /\ sensors' = SensorsAfterCalibrate(sensors, file')
            /\ pc' = "done"
            /\ UNCHANGED loc
    /\ UNCHANGED <<op, args, clock, lastMS>>

CalLoop == CalLoopWith([1..8 -> CalVals])

NextCal == CalStart \/ CalLoop \/ Tick \/ Return
SpecCal == InitNoFile /\ [][NextCal]_vars

----------------------------------------------------------------------------
(* Robot.lineFollow2Line and Robot.lineFollow4Time *)

FollowSpeeds == {-100, 200}
FollowTimes == {5}

\* error = followSensor.line - followSensor.light(), in 1/ThresholdScale
FollowError(s, light) == s.line - ThresholdScale * light

\* (pCorrection - dCorrection) * kSide of lineFollow2Line, lines 195-198, and
\* of lineFollow4Time, lines 220-223, in 1/SteerScale.  line is a multiple of
\* 10/ThresholdScale, and so is error: the divisions are exact.
Steering2Line(error, lastError, kSide) ==
    ((error * 5 - (lastError - error) * 25) \div 10) * kSide

Steering4TimeSum(error, lastError, kSide) ==
    ((error * 5 + (lastError - error) * 24) \div 10) * kSide

Steering4Time(error, lastError, kSide) ==
    ((error * 5 - (lastError - error) * 24) \div 10) * kSide

KSide(rightSide) == IF rightSide THEN 1 ELSE -1
FollowSide(useRightSensor) == IF useRightSensor THEN "right" ELSE "left"
StopSideSame(useRightSensor) == IF useRightSensor THEN "right" ELSE "left"
StopSide(useRightSensor) == IF useRightSensor THEN "left" ELSE "right"

\* The locals at the loop's start.  lights are the light() values the follow
\* sensor gave in the last two passes of the loop, the latest first.
\* stopLight is the light() value the stop sensor gave in the last loop test.
FollowLocals == [lastError |-> 0, lights |-> << >>, stopLight |-> 0]

\* The locals after a pass of the loop that read light from the follow sensor
AfterPass(l, error, light) ==
    [l EXCEPT !.lastError = error,
              !.lights = IF l.lights = << >> THEN <<light>> ELSE <<light, l.lights[1]>>]

\* lines 179-190
Follow2LineStartWith(speeds, sides) ==
    /\ op = "idle"
    /\ \E speed \in speeds, rightSide \in sides, useRightSensor \in BOOLEAN :
          args' = [speed |-> speed, rightSide |-> rightSide,
                   useRightSensor |-> useRightSensor, time |-> 0]
    /\ loc' = FollowLocals
    /\ op' = "lineFollow2Line"
    /\ pc' = "loop"
    /\ cmds' = {}
    /\ lastMS' = NoMS
    /\ UNCHANGED <<file, sensors, clock, leftCmd, rightCmd>>

Follow2LineStart == Follow2LineStartWith(FollowSpeeds, BOOLEAN)

\* lines 193-200: one test of the loop, then its body or the stop
Follow2LineLoop ==
    /\ op = "lineFollow2Line"
    /\ pc = "loop"
    /\ \E stopLight \in LightVals :
          IF ~IsWhiteAt(sensors[StopSide(args.useRightSensor)], stopLight)
          THEN /\ \E light \in LightVals :
                    LET error == FollowError(sensors[FollowSide(args.useRightSensor)], light)
                    IN  /\ MoveSteering(
                              Steering2Line(error, loc.lastError, KSide(args.rightSide)),
                              args.speed * SpeedScale)
                        /\ loc' = [AfterPass(loc, error, light) EXCEPT
                                      !.stopLight = stopLight]
               /\ cmds' = cmds \cup RunTags
               /\ pc' = "loop"
          ELSE /\ Stop("HOLD")
               /\ cmds' = cmds \cup StopTags
               /\ pc' = "done"
               /\ loc' = [loc EXCEPT !.stopLight = stopLight]
               /\ UNCHANGED lastMS
    /\ UNCHANGED <<file, sensors, op, args, clock>>

\* lines 205-214
Follow4TimeStartWith(speeds, sides) ==
    /\ op = "idle"
    /\ \E speed \in speeds, time \in FollowTimes,
          rightSide \in sides, useRightSensor \in BOOLEAN :
          args' = [speed |-> speed, rightSide |-> rightSide,
                   useRightSensor |-> useRightSensor, time |-> time]
    /\ loc' = FollowLocals
    /\ op' = "lineFollow4Time"
    /\ pc' = "loop"
    /\ clock' = 0
    /\ cmds' = {}
    /\ lastMS' = NoMS
    /\ UNCHANGED <<file, sensors, leftCmd, rightCmd>>

Follow4TimeStart == Follow4TimeStartWith(FollowSpeeds, BOOLEAN)

\* lines 217-226: one test of the loop, then its body or the stop
Follow4TimeLoop ==
    /\ op = "lineFollow4Time"
    /\ pc = "loop"
    /\ IF clock < args.time * 1000
       THEN /\ \E light \in LightVals :
                 LET error == FollowError(sensors[FollowSide(args.useRightSensor)], light)
                 IN  /\ MoveSteering(
                           Steering4Time(error, loc.lastError, KSide(args.rightSide)),
                           args.speed * SpeedScale)
                     /\ loc' = AfterPass(loc, error, light)
            /\ cmds' = cmds \cup RunTags
            /\ pc' = "loop"
       ELSE /\ Stop("HOLD")
            /\ cmds' = cmds \cup StopTags
            /\ pc' = "done"
            /\ UNCHANGED <<loc, lastMS>>
    /\ UNCHANGED <<file, sensors, op, args, clock>>

NextFollow ==
    Follow2LineStart \/ Follow2LineLoop \/ Follow4TimeStart \/ Follow4TimeLoop
        \/ Tick \/ Return
SpecFollow == Init /\ [][NextFollow]_vars

----------------------------------------------------------------------------
(* Robot.turn *)

TurnAngles == {0, 90}
TurnSpeeds == {-300, 300}
TurnTimes == {5}

\* the test of turn's while loop
TurnCondNoTimeout(gyro, angle, t, time) ==
    Abs(gyro - angle) > 0

TurnCondBand(gyro, angle, t, time) ==
    (Abs(gyro - angle) > 10) /\ (t < time * 1000)

TurnCond(gyro, angle, t, time) ==
    (Abs(gyro - angle) > 0) /\ (t < time * 1000)

\* speed * error * kTurn + copysign(offset, error), in 1/SpeedScale
TurnSpeed(speed, error) ==
    speed * error * (SpeedScale \div 100) + CopySign(20, error) * SpeedScale

\* lines 162-165.  loc.testAngle is the gyro angle the last loop test read,
\* loc.reported the one that line 174 prints.  loc.ramp counts the passes of
\* the loop as long as the gyro has read 10 degrees times the number of
\* passes before it, in the test and in the body; it is -1 once it has not.
TurnStartWith(angles, speeds, times) ==
    /\ op = "idle"
    /\ \E angle \in angles, speed \in speeds, time \in times :
          args' = [angle |-> angle, speed |-> speed, time |-> time]
    /\ loc' = [testAngle |-> -1, reported |-> -1, ramp |-> 0]
    /\ op' = "turn"
    /\ pc' = "loop"
    /\ clock' = 0
    /\ cmds' = {}
    /\ lastMS' = NoMS
    /\ UNCHANGED <<file, sensors, leftCmd, rightCmd>>

TurnStart == TurnStartWith(TurnAngles, TurnSpeeds, TurnTimes)

\* lines 168-174: one test of the loop, then its body, or the stop and the
\* print, with the gyro reading one of gyros
TurnLoopWith(gyros) ==
    /\ op = "turn"
    /\ pc = "loop"
    /\ \E gyro \in gyros :
          IF TurnCond(gyro, args.angle, clock, args.time)
          THEN /\ \E gyro2 \in gyros :
                    /\ MoveSteering(100 * SteerScale, TurnSpeed(args.speed, gyro2 - args.angle))
                    /\ loc' = [loc EXCEPT
                                 !.testAngle = gyro,
                                 !.ramp = IF loc.ramp >= 0 /\ gyro = 10 * loc.ramp /\ gyro2 = gyro
                                          THEN loc.ramp + 1 ELSE -1]
               /\ cmds' = cmds \cup RunTags
               /\ pc' = "loop"
          ELSE /\ Stop("HOLD")
               /\ cmds' = cmds \cup StopTags
               /\ \E gyro3 \in gyros :
                    loc' = [testAngle |-> gyro, reported |-> gyro3,
                            ramp |-> IF loc.ramp >= 0 /\ gyro = 10 * loc.ramp
                                     THEN loc.ramp ELSE -1]
               /\ pc' = "done"
               /\ UNCHANGED lastMS
    /\ UNCHANGED <<file, sensors, op, args, clock>>

TurnLoop == TurnLoopWith(GyroVals)

NextTurn == TurnStart \/ TurnLoop \/ Tick \/ Return
SpecTurn == InitNoFile /\ [][NextTurn]_vars

----------------------------------------------------------------------------
(* Robot.turn2Line and Robot.drive2Line *)

LineSpeeds == {-100, 200}
LineDistances == {0, 1}
Turn2LineTimes == {5, 10}

\* lines 230-233 and 241-244: the side of stopSensor
StopSensor(useRightSensor) == IF useRightSensor THEN "right" ELSE "left"

\* the readings of a sensor that no wait has read yet
WaitLocals(side) ==
    [side |-> side, whiteSeen |-> FALSE, blackSeen |-> FALSE,
     blackAfterWhite |-> FALSE, blackFirst |-> FALSE]

\* lines 229-236: turn2Line never reads its time argument, so at no time t
\* of its wait does it give the wait up
Turn2LineGivesUpAtTime(t, time) == t >= time * 1000
Turn2LineGivesUp(t, time) == FALSE

\* lines 229-234: the choice of stopSensor and moveSteering(100, speed)
Turn2LineStartWith(speeds, times) ==
    /\ op = "idle"
    /\ \E speed \in speeds, useRightSensor \in BOOLEAN, time \in times :
          /\ args' = [speed |-> speed, useRightSensor |-> useRightSensor, time |-> time]
          /\ loc' = WaitLocals(StopSensor(useRightSensor))
          /\ MoveSteering(100 * SteerScale, speed * SpeedScale)
    /\ cmds' = RunTags
    /\ clock' = 0
    /\ op' = "turn2Line"
    /\ pc' = "white"
    /\ UNCHANGED <<file, sensors>>

Turn2LineStart == Turn2LineStartWith(LineSpeeds, Turn2LineTimes)

\* line 235, stopSensor.waitForLine(): one test of the loop of its waitForWhite
Turn2LineWhite ==
    /\ op = "turn2Line"
    /\ pc = "white"
    /\ IF Turn2LineGivesUp(clock, args.time)
       THEN pc' = "stop" /\ UNCHANGED loc
       ELSE WaitForWhitePass(loc.side, "black")
    /\ UNCHANGED <<file, sensors, op, args, clock, leftCmd, rightCmd, cmds, lastMS>>

\* line 235: one test of the loop of its waitForBlack
Turn2LineBlack ==
    /\ op = "turn2Line"
    /\ pc = "black"
    /\ IF Turn2LineGivesUp(clock, args.time)
       THEN pc' = "stop" /\ UNCHANGED loc
       ELSE WaitForBlackPass(loc.side, "stop")
    /\ UNCHANGED <<file, sensors, op, args, clock, leftCmd, rightCmd, cmds, lastMS>>

\* line 236: self.stop()
Turn2LineStop ==
    /\ op = "turn2Line"
    /\ pc = "stop"
    /\ Stop("HOLD")
    /\ cmds' = cmds \cup StopTags
    /\ pc' = "done"
    /\ UNCHANGED <<file, sensors, op, args, loc, clock, lastMS>>

\* The locals of drive2Line: those of the drive() it is in (d), the readings
\* of stopSensor (w), and how many times it has called moveSteering itself
\* (creeps) and drive (drives).
Drive2LineLocals(d, w, creeps, drives) ==
    [startDegrees |-> d.startDegrees, distance |-> d.distance, speed |-> d.speed,
     rotation |-> d.rotation, reached |-> d.reached, gyro |-> d.gyro, sine |-> d.sine,
     side |-> w.side, whiteSeen |-> w.whiteSeen, blackSeen |-> w.blackSeen,
     blackAfterWhite |-> w.blackAfterWhite, blackFirst |-> w.blackFirst,
     creeps |-> creeps, drives |-> drives]

\* the locals of a drive() that has returned are gone
NoDrive == DriveLocals(0, 0, 0)

\* lines 245-255: the statement that follows each statement of drive2Line
Drive2LineAfterNoWait(at) ==
    CASE at = "before" -> "creep"
      [] at = "creep"  -> "hold"
      [] at = "white"  -> "black"
      [] at = "black"  -> "hold"
      [] at = "hold"   -> "enter"
      [] at = "enter"  -> "after"
      [] at = "after"  -> "done"
Drive2LineAfter(at) ==
    CASE at = "before" -> "creep"
      [] at = "creep"  -> "white"
      [] at = "white"  -> "black"
      [] at = "black"  -> "hold"
      [] at = "hold"   -> "enter"
      [] at = "enter"  -> "after"
      [] at = "after"  -> "done"

\* lines 241-245: the choice of stopSensor, and drive(distanceBefore, speed) up
\* to the start of its timer; time and kSteering take drive's defaults
Drive2LineStartWith(speeds, distances) ==
    /\ op = "idle"
    /\ \E speed \in speeds, distanceBefore \in distances, distanceAfter \in distances,
          useRightSensor \in BOOLEAN, startDegrees \in DriveGyroVals :
          /\ args' = [speed |-> speed, distanceBefore |-> distanceBefore,
                      distanceAfter |-> distanceAfter, useRightSensor |-> useRightSensor,
                      time |-> 20, kSteering |-> 1]
          /\ loc' = Drive2LineLocals(DriveLocals(distanceBefore, speed, startDegrees),
                                     WaitLocals(StopSensor(useRightSensor)), 0, 1)
    /\ rightCmd' = ResetAngle(0)
    /\ cmds' = {"R.reset"}
    /\ clock' = 0
    /\ op' = "drive2Line"
    /\ pc' = "before"
    /\ lastMS' = NoMS
    /\ UNCHANGED <<file, sensors, leftCmd>>

Drive2LineStart == Drive2LineStartWith(LineSpeeds, LineDistances)

\* line 245: one test of the loop of drive(distanceBefore, speed)
Drive2LineBefore ==
    /\ op = "drive2Line"
    /\ pc = "before"
    /\ DrivePass("before", Drive2LineAfter("before"))
    /\ UNCHANGED <<file, sensors, op, args, clock>>

\* line 248: moveSteering(0, 0.5 * speed)
Drive2LineCreep ==
    /\ op = "drive2Line"
    /\ pc = "creep"
    /\ MoveSteering(0, (SpeedScale \div 2) * args.speed)
    /\ cmds' = cmds \cup RunTags
    /\ loc' = Drive2LineLocals(NoDrive, loc, loc.creeps + 1, loc.drives)
    /\ clock' = 0
    /\ pc' = Drive2LineAfter("creep")
    /\ UNCHANGED <<file, sensors, op, args>>

\* line 251, stopSensor.waitForLine(): one test of the loop of its waitForWhite
Drive2LineWhite ==
    /\ op = "drive2Line"
    /\ pc = "white"
    /\ WaitForWhitePass(loc.side, Drive2LineAfter("white"))
    /\ UNCHANGED <<file, sensors, op, args, clock, leftCmd, rightCmd, cmds, lastMS>>

\* line 251: one test of the loop of its waitForBlack
Drive2LineBlack ==
    /\ op = "drive2Line"
    /\ pc = "black"
    /\ WaitForBlackPass(loc.side, Drive2LineAfter("black"))
    /\ UNCHANGED <<file, sensors, op, args, clock, leftCmd, rightCmd, cmds, lastMS>>

\* line 252: self.stop(Stop.HOLD)
Drive2LineHold ==
    /\ op = "drive2Line"
    /\ pc = "hold"
    /\ Stop("HOLD")
    /\ cmds' = cmds \cup StopTags
    /\ pc' = Drive2LineAfter("hold")
    /\ UNCHANGED <<file, sensors, op, args, loc, clock, lastMS>>

\* line 255: drive(distanceAfter, speed) up to the start of its timer
Drive2LineEnter ==
    /\ op = "drive2Line"
    /\ pc = "enter"
    /\ \E startDegrees \in DriveGyroVals :
          loc' = Drive2LineLocals(DriveLocals(args.distanceAfter, args.speed, startDegrees),
                                  loc, loc.creeps, loc.drives + 1)
    /\ rightCmd' = ResetAngle(0)
    /\ cmds' = cmds \cup {"R.reset"}
    /\ clock' = 0
    /\ pc' = Drive2LineAfter("enter")
    /\ UNCHANGED <<file, sensors, op, args, leftCmd, lastMS>>

\* line 255: one test of the loop of drive(distanceAfter, speed)
Drive2LineAfterLoop ==
    /\ op = "drive2Line"
    /\ pc = "after"
    /\ DrivePass("after", Drive2LineAfter("after"))
    /\ UNCHANGED <<file, sensors, op, args, clock>>

NextLine ==
    \/ Turn2LineStart \/ Turn2LineWhite \/ Turn2LineBlack \/ Turn2LineStop
    \/ Drive2LineStart \/ Drive2LineBefore \/ Drive2LineCreep \/ Drive2LineWhite
    \/ Drive2LineBlack \/ Drive2LineHold \/ Drive2LineEnter \/ Drive2LineAfterLoop
    \/ Tick \/ Return
SpecLine == InitNoFile /\ [][NextLine]_vars

----------------------------------------------------------------------------
(* All the operations of one Robot, called one after the other *)

RobotSteerings == {50}
RobotSpeeds == {200}
RobotDriveSpeeds == {300}
RobotDistances == {-1, 1}
RobotLineDistances == {1}
RobotAngles == {90}
RobotGyroVals == {0, 90}
RobotTimes == {5}
RobotDriveTimes == {20}

\* the light() values of a pass of calibrate's loop over a surface of one
\* brightness
SteadyReadings == {[i \in 1..8 |-> v] : v \in CalVals}

MotionOps ==
    {"drive", "turn", "lineFollow2Line", "lineFollow4Time", "turn2Line", "drive2Line",
     "calibrate"}

NextRobot ==
    \/ MoveSteeringCallWith(RobotSteerings, RobotSpeeds) \/ StopCall
    \/ DriveStartWith(RobotDistances, RobotDriveSpeeds, RobotDriveTimes) \/ DriveLoop
    \/ TurnStartWith(RobotAngles, RobotDriveSpeeds, RobotTimes) \/ TurnLoopWith(RobotGyroVals)
    \/ Follow2LineStartWith(RobotSpeeds, BOOLEAN) \/ Follow2LineLoop
    \/ Follow4TimeStartWith(RobotSpeeds, BOOLEAN) \/ Follow4TimeLoop
    \/ Turn2LineStartWith(RobotSpeeds, RobotTimes) \/ Turn2LineWhite \/ Turn2LineBlack
    \/ Turn2LineStop
    \/ Drive2LineStartWith(RobotSpeeds, RobotLineDistances) \/ Drive2LineBefore
    \/ Drive2LineCreep \/ Drive2LineWhite \/ Drive2LineBlack \/ Drive2LineHold
    \/ Drive2LineEnter \/ Drive2LineAfterLoop
    \/ CalStart \/ CalLoopWith(SteadyReadings)
    \/ Tick \/ Return
SpecRobot == InitNoFile /\ [][NextRobot]_vars

----------------------------------------------------------------------------
(* Fairness: the one control thread keeps running, and time passes *)

LiveDrive == SpecDrive /\ WF_vars(DriveLoop) /\ WF_vars(Tick)
LiveTurn == SpecTurn /\ WF_vars(TurnLoop) /\ WF_vars(Tick)

----------------------------------------------------------------------------
(* Claims *)

C2_NeverBoosts ==
    lastMS.called /\ leftCmd.k = "run" /\ rightCmd.k = "run" =>
        /\ Abs(leftCmd.v) <= Abs(lastMS.speed) * FactorScale
        /\ Abs(rightCmd.v) <= Abs(lastMS.speed) * FactorScale

\* C2, amended: for every steering in [-100, 100] and every base speed,
\* neither wheel speed that moveSteering commands exceeds the base speed in
\* magnitude.
C2_NeverBoostsWithin100 ==
    (/\ lastMS.called /\ leftCmd.k = "run" /\ rightCmd.k = "run"
     /\ Abs(lastMS.steering) <= 100 * SteerScale) =>
        /\ Abs(leftCmd.v) <= Abs(lastMS.speed) * FactorScale
        /\ Abs(rightCmd.v) <= Abs(lastMS.speed) * FactorScale

C2_Witness ==
    /\ lastMS.called /\ leftCmd.k = "run" /\ rightCmd.k = "run"
    /\ lastMS.steering = 50 * SteerScale
    /\ lastMS.speed = -200 * SpeedScale
    /\ rightCmd.v = 0
    /\ leftCmd.v = -200 * SpeedScale * FactorScale

\* C3 as stated: for every steering > 0 and every base speed, positive or
\* negative, moveSteering commands leftSpeed >= rightSpeed.
C3_LeftAtLeastRight ==
    (lastMS.called /\ leftCmd.k = "run" /\ rightCmd.k = "run" /\ lastMS.steering > 0) =>
        leftCmd.v >= rightCmd.v

\* C3, amended: for every steering > 0, moveSteering commands
\* leftSpeed >= rightSpeed when the base speed is >= 0, and
\* leftSpeed <= rightSpeed when it is negative.
C3_LeftAtLeastRightForward ==
    (lastMS.called /\ leftCmd.k = "run" /\ rightCmd.k = "run" /\ lastMS.steering > 0) =>
        /\ lastMS.speed >= 0 => leftCmd.v >= rightCmd.v
        /\ lastMS.speed < 0 => leftCmd.v <= rightCmd.v

C3_Witness ==
    /\ lastMS.called /\ leftCmd.k = "run" /\ rightCmd.k = "run"
    /\ lastMS.steering > 0
    /\ lastMS.speed > 0
    /\ leftCmd.v > rightCmd.v

\* C4: calibrate persists, for each side, Low = the minimum and High = the
\* maximum of the light() readings that sensor produced during the window,
\* whatever the seeds are (readings of 30 and 90 give Low = 30, High = 90).
C4_PersistsMinMax ==
    (op = "calibrate" /\ pc = "done" /\ loc.rightSeen # {} /\ loc.leftSeen # {}) =>
        /\ file.rightLow = SetMin(loc.rightSeen)
        /\ file.rightHigh = SetMax(loc.rightSeen)
        /\ file.leftLow = SetMin(loc.leftSeen)
        /\ file.leftHigh = SetMax(loc.leftSeen)

\* The steering of the last pass, in 1/(10 * SteerScale), under the PD law
\*    (0.25 * error - kd/20 * (previousError - error)) * sideSign
\* where error = line - light() of this pass and previousError is that of the
\* pass before, or 0 in the first pass.
PDLaw(kd) ==
    LET s == sensors[FollowSide(args.useRightSensor)]
        error == s.line - ThresholdScale * loc.lights[1]
        previousError == IF Len(loc.lights) = 2
                         THEN s.line - ThresholdScale * loc.lights[2] ELSE 0
    IN  lastMS.steering * 10
            = (5 * error - kd * (previousError - error)) * KSide(args.rightSide)

\* C5 as stated: lineFollow2Line and lineFollow4Time issue on every tick the
\* steering (0.25*error - 1.2*(previousError - error)) * sideSign.
C5_OnePDLaw ==
    (op \in {"lineFollow2Line", "lineFollow4Time"} /\ lastMS.called) => PDLaw(24)

\* C5, amended: on every tick lineFollow4Time issues the steering
\* (0.25*error - 1.2*(previousError - error)) * sideSign and lineFollow2Line
\* issues (0.25*error - 1.25*(previousError - error)) * sideSign: the same PD
\* law but for the derivative gain.
C5_PDLawPerVariant ==
    /\ (op = "lineFollow4Time" /\ lastMS.called) => PDLaw(24)
    /\ (op = "lineFollow2Line" /\ lastMS.called) => PDLaw(25)

\* line = 50, readings 70 then 60: dCorrection = -12, steering = -2.5 + 12
C5_Witness ==
    /\ op = "lineFollow4Time" /\ lastMS.called
    /\ ~args.useRightSensor /\ args.rightSide
    /\ sensors.left.line = 50 * ThresholdScale
    /\ loc.lights = <<60, 70>>
    /\ 2 * lastMS.steering = 19 * SteerScale

\* C6: drive(d, speed) with d > 0 returns under a clock that keeps advancing,
\* whatever the right motor's angle reads; a loop test made once the elapsed
\* time has reached the timeout leaves the loop.
C6_DriveTerminates ==
    /\ (op = "drive" /\ args.distance > 0) ~> (pc = "done")
    /\ [][(op = "drive" /\ pc = "loop" /\ clock >= args.time * 1000 /\ UNCHANGED clock)
            => pc' = "done"]_vars

C6_Witness ==
    /\ op = "drive" /\ pc = "done" /\ args.distance > 0
    /\ ~loc.reached
    /\ clock >= args.time * 1000

\* C7 as stated: turn leaves its loop as soon as a loop test reads the gyro
\* at the target, then stops and reports a final error of zero; turn(90, 300,
\* 5) on a gyro that gains 10 degrees per tick from 0 ends at tick 9 at 90
\* degrees, before the timeout.
C7_TurnStopsAtTargetZeroError ==
    /\ (op = "turn" /\ pc = "loop" /\ lastMS.called) => loc.testAngle # args.angle
    /\ (op = "turn" /\ pc = "done" /\ loc.testAngle = args.angle) =>
          /\ leftCmd = StopCmd("HOLD")
          /\ rightCmd = StopCmd("HOLD")
          /\ loc.reported - args.angle = 0
    /\ (op = "turn" /\ pc = "done" /\ loc.ramp >= 0 /\ clock < args.time * 1000
           /\ args.angle = 90 /\ args.speed = 300 /\ args.time = 5) =>
          loc.ramp = 9 /\ loc.testAngle = 90

\* C7, amended: turn leaves its loop as soon as a loop test reads the gyro at
\* the target, then stops with HOLD; the angle it reports is a new reading of
\* the gyro.  turn(90, 300, 5) on a gyro that gains 10 degrees per pass of the
\* loop from 0 leaves the loop in pass 9, on reading 90, before the timeout.
C7_TurnStopsAtTarget ==
    /\ (op = "turn" /\ pc = "loop" /\ lastMS.called) => loc.testAngle # args.angle
    /\ (op = "turn" /\ pc = "done" /\ loc.testAngle = args.angle) =>
          /\ leftCmd = StopCmd("HOLD")
          /\ rightCmd = StopCmd("HOLD")
          /\ loc.reported \in GyroVals
    /\ (op = "turn" /\ pc = "done" /\ loc.ramp >= 0 /\ clock < args.time * 1000
           /\ args.angle = 90 /\ args.speed = 300 /\ args.time = 5) =>
          loc.ramp = 9 /\ loc.testAngle = 90

C7_Witness ==
    /\ op = "turn" /\ pc = "done"
    /\ args.angle = 90 /\ args.speed = 300 /\ args.time = 5
    /\ loc.ramp = 9 /\ loc.testAngle = 90 /\ loc.reported = 90
    /\ clock < args.time * 1000

\* C8: for every low < high, a LightSensor built from (low, high) has
\* black, line and white at 25%, 50% and 80% of the range above low, and
\* low <= black <= line <= white <= high.
C8_ThresholdsOrdered ==
    \A side \in Sides :
        sensors[side].low < sensors[side].high =>
            LET s == sensors[side] IN
            /\ 4 * s.black = ThresholdScale * (4 * s.low + (s.high - s.low))
            /\ 2 * s.line = ThresholdScale * (2 * s.low + (s.high - s.low))
            /\ 5 * s.white = ThresholdScale * (5 * s.low + 4 * (s.high - s.low))
            /\ ThresholdScale * s.low <= s.black
            /\ s.black <= s.line
            /\ s.line <= s.white
            /\ s.white <= ThresholdScale * s.high

C8_Witness ==
    /\ file.present
    /\ sensors.left.low = 30 /\ sensors.left.high = 70
    /\ sensors.left.black = 40 * ThresholdScale
    /\ sensors.left.line = 50 * ThresholdScale
    /\ sensors.left.white = 62 * ThresholdScale
    /\ sensors.right.low = 40 /\ sensors.right.high = 90

\* C9: for a LightSensor with black < white, no light reading is classified
\* both white and black: a reading for which isWhite() answered True is not
\* <= black, and one for which isBlack() answered True is not >= white.
C9_WhiteBlackExclusive ==
    (op \in {"isWhite", "isBlack"} /\ pc = "done"
        /\ sensors[loc.side].black < sensors[loc.side].white /\ loc.result) =>
        IF op = "isWhite"
        THEN ~(ThresholdScale * loc.reading <= sensors[loc.side].black)
        ELSE ~(ThresholdScale * loc.reading >= sensors[loc.side].white)

C9_Witness ==
    /\ op = "isBlack" /\ pc = "done" /\ loc.result
    /\ sensors[loc.side].black < sensors[loc.side].white

\* C10: waitForLine() returns only after a reading classified white and, at a
\* later read, a reading classified black; as long as no reading was white it
\* does not return, whatever black readings it got.
C10_WhiteThenBlack ==
    /\ [](op = "waitForLine" /\ pc = "done" => loc.whiteSeen /\ loc.blackAfterWhite)
    /\ [][(op = "waitForLine" /\ pc # "done" /\ pc' = "done") => loc.whiteSeen]_vars

C10_Witness ==
    op = "waitForLine" /\ pc = "done" /\ loc.blackFirst /\ loc.blackAfterWhite

\* C13: on every control tick of drive with nonzero speed whose sine term is
\* in [0, 1], the base speed passed to moveSteering has the sign of the
\* travel direction, that of speed after a negative distance has negated it.
C13_BaseSpeedSignOfTravel ==
    (op = "drive" /\ lastMS.called /\ loc.sine >= 0 /\ loc.sine <= SpeedScale) =>
        IF (IF args.distance < 0 THEN -args.speed ELSE args.speed) > 0
        THEN lastMS.speed > 0
        ELSE lastMS.speed < 0

\* C18: drive(-d, s) and drive(d, -s) issue the same commands on the same
\* readings, with the rotation target d*51.9: the target, the loop's exit and
\* each moveSteering call of drive(distance, speed) are functions of the
\* readings, of |distance| and of the travel speed T alone, where T = -speed
\* for a negative distance and T = speed otherwise, which are the same for
\* the two calls.
C18_NegativeDistanceFlips ==
    op = "drive" =>
        LET d == Abs(args.distance)
            T == IF args.distance < 0 THEN -args.speed ELSE args.speed
        IN  /\ loc.rotation = d * 519
            /\ "R.reset" \in cmds
            /\ lastMS.called =>
                  /\ lastMS.steering = (loc.gyro - loc.startDegrees) * args.kSteering
                                          * (IF T < 0 THEN -1 ELSE 1) * SteerScale
                  /\ lastMS.speed = Min(loc.sine, (Abs(T) - 100) * SpeedScale) * T
                                       + (IF T < 0 THEN -100 ELSE 100) * SpeedScale
            /\ pc = "done" =>
                  /\ loc.reached \/ clock >= args.time * 1000
                  /\ leftCmd = StopCmd("HOLD") /\ rightCmd = StopCmd("HOLD")

C18_Witness ==
    /\ op = "drive" /\ args.distance = -1 /\ args.speed = 300
    /\ lastMS.called
    /\ loc.sine = SpeedScale
    /\ lastMS.speed = -400 * SpeedScale

\* C14: turn always returns under a clock that keeps advancing: its loop ends
\* when a test reads the gyro exactly at the target or when the elapsed time
\* has reached the timeout, also when the gyro never reads the target.
C14_TurnTerminates ==
    /\ (op = "turn") ~> (op = "turn" /\ pc = "done")
    /\ [](op = "turn" /\ pc = "done" =>
             loc.testAngle = args.angle \/ clock >= args.time * 1000)
    /\ [][(op = "turn" /\ pc = "loop" /\ clock >= args.time * 1000 /\ UNCHANGED clock)
            => pc' = "done"]_vars

\* the turn ended at the timeout with the gyro past the target
C14_Witness ==
    /\ op = "turn" /\ pc = "done" /\ lastMS.called
    /\ args.angle = 90 /\ loc.testAngle = 100
    /\ clock >= args.time * 1000

\* C15: lineFollow2Line stops exactly when the sensor that is not used for
\* following reads white (the left one with useRightSensor=True, the right
\* one otherwise): it leaves the loop only on such a reading, whatever the
\* follow sensor reads, and every loop test that reads the stop sensor not
\* white issues a steering command and stays in the loop.
C15_StopsOnOtherSensorWhite ==
    /\ [](op = "lineFollow2Line" /\ pc = "done" =>
            ThresholdScale * loc.stopLight
                >= (IF args.useRightSensor THEN sensors.left ELSE sensors.right).white)
    /\ [](op = "lineFollow2Line" /\ pc = "loop" /\ lastMS.called =>
            ThresholdScale * loc.stopLight
                < (IF args.useRightSensor THEN sensors.left ELSE sensors.right).white)
    /\ [][(op = "lineFollow2Line" /\ pc = "loop") =>
            IF ThresholdScale * loc'.stopLight
                  >= (IF args.useRightSensor THEN sensors.left ELSE sensors.right).white
            THEN pc' = "done" /\ leftCmd' = StopCmd("HOLD") /\ rightCmd' = StopCmd("HOLD")
            ELSE pc' = "loop" /\ lastMS'.called /\ leftCmd'.k = "run" /\ rightCmd'.k = "run"
         ]_vars

\* with useRightSensor=True the loop went on over a white reading of the
\* right (follow) sensor and ended on a white reading of the left one
C15_Witness ==
    /\ op = "lineFollow2Line" /\ pc = "done" /\ args.useRightSensor
    /\ ~file.present
    /\ loc.lights # << >> /\ loc.lights[1] = 140
    /\ loc.stopLight = 90

\* C16: waitForWhite, waitForBlack and waitForLine have no timeout: however
\* much time has passed, a wait returns only on a reading the sensor
\* classifies as asked (>= white, <= black, >= white and then <= black), and
\* until such a reading it stays in its loop.
C16_WaitsHaveNoTimeout ==
    /\ op = "waitForWhite" =>
          /\ pc = "white" => ~loc.whiteSeen
          /\ pc = "done" => loc.whiteSeen
    /\ op = "waitForBlack" =>
          /\ pc = "black" => ~loc.blackSeen
          /\ pc = "done" => loc.blackSeen
    /\ op = "waitForLine" =>
          /\ pc = "white" => ~loc.whiteSeen
          /\ pc = "black" => loc.whiteSeen /\ ~loc.blackAfterWhite
          /\ pc = "done" => loc.blackAfterWhite
\* a waitForLine still blocked on its black reading when the clock is at its bound
C16_Witness ==
    /\ op = "waitForLine"
    /\ pc = "black"
    /\ clock = MaxTicks * TickMs
    /\ ~loc.blackAfterWhite

\* C19: whatever the sensors read during the window, the record calibrate
\* persists has leftLow < leftHigh and rightLow < rightHigh.
C19_PersistsLowBelowHigh ==
    (op = "calibrate" /\ pc = "done") =>
        /\ file.present
        /\ file.leftLow < file.leftHigh
        /\ file.rightLow < file.rightHigh

\* C20: turn2Line's time argument has no effect.  From its moveSteering(100,
\* speed) until the wait ends, the motor commands are those of that one call,
\* fixed by speed alone; it is in the wait exactly while the selected sensor
\* has not read white and then black, also when the clock has passed time; and
\* it ends with a stop.
C20_Turn2LineIgnoresTime ==
    op = "turn2Line" =>
        /\ loc.side = (IF args.useRightSensor THEN "right" ELSE "left")
        /\ lastMS = [called |-> TRUE, steering |-> 100 * SteerScale,
                     speed |-> args.speed * SpeedScale]
        /\ pc \in {"white", "black", "stop"} =>
              /\ leftCmd = Run(args.speed * SpeedScale * FactorScale)
              /\ rightCmd = Run(-(args.speed * SpeedScale * FactorScale))
              /\ cmds = RunTags
        /\ pc = "white" => ~loc.whiteSeen
        /\ pc = "black" => loc.whiteSeen /\ ~loc.blackAfterWhite
        /\ pc \in {"stop", "done"} => loc.blackAfterWhite
        /\ pc = "done" =>
              /\ leftCmd = StopCmd("HOLD")
              /\ rightCmd = StopCmd("HOLD")
              /\ cmds = RunTags \cup StopTags
\* a turn2Line(speed, useRightSensor, 5) still turning, with no white seen,
\* when 10 s have passed
C20_Witness ==
    /\ op = "turn2Line"
    /\ pc = "white"
    /\ args.time = 5
    /\ clock = 10000
    /\ leftCmd.k = "run"

\* C17: drive2Line performs its phases in order.  Until drive(distanceBefore,
\* speed) has ended with its stop, no sensor is read and moveSteering(0,
\* 0.5 * speed) is not called; it is then called once; from then until the
\* selected sensor has read white and then black, the motor commands stay
\* those of that call; then both motors are stopped with HOLD; and
\* drive(distanceAfter, speed) starts only after that.
C17_Drive2LinePhasesInOrder ==
    /\ [](op = "drive2Line" =>
            /\ loc.side = (IF args.useRightSensor THEN "right" ELSE "left")
            /\ pc \in {"before", "creep"} =>
                  /\ loc.creeps = 0 /\ loc.drives = 1
                  /\ ~loc.whiteSeen /\ ~loc.blackSeen
            /\ pc = "creep" =>
                  leftCmd = StopCmd("HOLD") /\ rightCmd = StopCmd("HOLD")
            /\ pc \in {"white", "black", "hold"} =>
                  /\ loc.creeps = 1 /\ loc.drives = 1
                  /\ lastMS = [called |-> TRUE, steering |-> 0,
                               speed |-> 500 * args.speed]
                  /\ leftCmd = Run(500 * args.speed * FactorScale)
                  /\ rightCmd = Run(500 * args.speed * FactorScale)
            /\ pc = "white" => ~loc.whiteSeen
            /\ pc = "black" => loc.whiteSeen /\ ~loc.blackAfterWhite
            /\ pc \in {"hold", "enter", "after", "done"} => loc.blackAfterWhite
            /\ pc = "enter" =>
                  /\ loc.drives = 1
                  /\ leftCmd = StopCmd("HOLD") /\ rightCmd = StopCmd("HOLD")
            /\ pc \in {"after", "done"} => loc.creeps = 1 /\ loc.drives = 2)
    /\ [][(op = "drive2Line" /\ pc \in {"white", "black"}) =>
            /\ leftCmd' = leftCmd
            /\ rightCmd' = rightCmd
            /\ cmds' = cmds
            /\ lastMS' = lastMS]_vars
\* the second drive of a drive2Line(speed, 1, 1, useRightSensor) has commanded
\* the motors, after the line was seen
C17_Witness ==
    /\ op = "drive2Line"
    /\ pc = "after"
    /\ args.distanceBefore = 1
    /\ args.distanceAfter = 1
    /\ loc.blackAfterWhite
    /\ leftCmd.k = "run"

\* C11: the thresholds of the left and right sensors are fixed at
\* construction: no step of any Robot operation changes them; the persisted
\* record changes only in the step where calibrate writes it, and the sensors
\* of the running Robot stay those built from the record found at construction.
C11_ThresholdsFixed ==
    /\ [][sensors' = sensors]_vars
    /\ [](sensors = NewSensors(NoFile))
    /\ [][file' # file => (op = "calibrate" /\ pc = "loop" /\ pc' = "done")]_vars
\* a turn2Line waiting on thresholds that are not those of the record a
\* calibrate has persisted before it
C11_Witness ==
    /\ op = "turn2Line"
    /\ pc = "black"
    /\ file.present
    /\ sensors # NewSensors(file)

\* C12: when a blocking motion operation is about to return, the last command
\* to the left motor and the last command to the right motor are stop(HOLD),
\* and no motor is commanded between that point and the return.
C12_EndsWithHold ==
    /\ []((op \in MotionOps /\ pc = "done") =>
            /\ leftCmd = StopCmd("HOLD")
            /\ rightCmd = StopCmd("HOLD")
            /\ StopTags \subseteq cmds)
    /\ [][pc = "done" => (leftCmd' = leftCmd /\ rightCmd' = rightCmd)]_vars
\* a lineFollow4Time that has run both motors and is about to return
C12_Witness ==
    /\ op = "lineFollow4Time"
    /\ pc = "done"
    /\ RunTags \subseteq cmds
    /\ leftCmd.k = "stop"

====
